---- MODULE Spec2Model ----
(***************************************************************************)
(* Email classification service: the classify endpoint, its TTL result     *)
(* cache and history (app/api/routes.py), the retrying completion client   *)
(* (app/services/openai_client.py) and the interpretation of the model's   *)
(* reply (app/services/classifier.py).                                     *)
(*                                                                         *)
(* Numbers with a fractional part (confidence, JSON numbers) are kept in   *)
(* tenths: 5 stands for 0.5, 150 for 15.0.                                 *)
(* Strings that the code searches are sequences of tokens, so that         *)
(* "improdutivo" = <<"im", "produtivo">> really contains "produtivo".      *)
(***************************************************************************)
EXTENDS Integers, Sequences, FiniteSets, TLC

\* ------------------------------------------------------------------ bounds
MaxTime == 3            \* the clock runs over 0..MaxTime
MaxHistory == 2         \* classify requests are accepted while the history is shorter
MaxRetriesCfg == 4      \* settings.OPENAI_MAX_RETRIES ranges over 1..MaxRetriesCfg
CACHE_TTL == 2          \* settings.CACHE_TTL, in clock ticks
CACHE_MAX_SIZE == 1     \* settings.CACHE_MAX_SIZE

MaxCacheSize == 2       \* in the cache study maxsize ranges over 1..MaxCacheSize
MaxChars == 4           \* the texts given to the nlp functions have at most MaxChars pieces

\* ------------------------------------------------------- program constants
OPENAI_MAX_RETRIES == 3 \* settings.OPENAI_MAX_RETRIES, the default
StopAfterAttempt == 3   \* stop_after_attempt(3)
WaitMultiplier == 1     \* wait_exponential(multiplier=1, ...)
WaitMin == 2            \* wait_exponential(min=2)
WaitMax == 10           \* wait_exponential(max=10)
WaitExpBase == 2        \* wait_exponential's default exp_base
HistoryContentLimit == 500   \* request.email_content[:500]
MinContentLength == 1        \* EmailClassifyRequest.email_content min_length
MaxContentLength == 50000    \* EmailClassifyRequest.email_content max_length
PontuationMax == 10     \* min(10, pontuation), Field(le=10)
ConfidenceMax == 10     \* min(1.0, confidence), Field(le=1.0), in tenths
DefaultConfidence == 5  \* data.get("confidence", 0.5), in tenths
DefaultPontuation == 5  \* data.get("pontuation", 5)
FallbackProdutivo == 7  \* pontuation of the text heuristic, positive case
FallbackImprodutivo == 3 \* pontuation of the text heuristic, negative case

Min(a, b) == IF a <= b THEN a ELSE b
Max(a, b) == IF a >= b THEN a ELSE b

RECURSIVE Pow(_, _)
Pow(b, e) == IF e <= 0 THEN 1 ELSE b * Pow(b, e - 1)

\* ------------------------------------------------------------------- texts
\* A raw email text is the prefix of length len of the character stream body.
Text(b, n) == [body |-> b, len |-> n]

Texts == {Text("a", 5), Text("b", 600), Text("d", 50000)}

\* Python's hash() of the text: a 64-bit value, so distinct texts can collide.
\* Here "a"[:5] and "d"[:50000] collide. The stream "ws" is made of blanks.
Hash(t) ==
  CASE t.body = "a" -> 1
    [] t.body = "b" -> 2
    [] t.body = "c" -> 3
    [] t.body = "ws" -> 4
    [] OTHER        -> 1

get_cache_key(email_content) == Hash(email_content)

\* email_content[:500]
Truncate(t) == Text(t.body, Min(t.len, HistoryContentLimit))

\* ------------------------------------------------- strings the code searches
Lower(tok) ==
  CASE tok \in {"Produtivo", "PRODUTIVO"} -> "produtivo"
    [] tok \in {"Im", "IM"}               -> "im"
    [] OTHER                              -> tok

\* str.lower()
LowerSeq(s) == [i \in DOMAIN s |-> Lower(s[i])]

\* p in s
Contains(s, p) ==
  \E i \in 1..(Len(s) - Len(p) + 1) : SubSeq(s, i, i + Len(p) - 1) = p

PRODUTIVO == <<"produtivo">>
IMPRODUTIVO == <<"im", "produtivo">>

\* -------------------------------------------------- the model's reply text
\* A JSON member as json.loads delivers it.
FMissing == [k |-> "missing", toks |-> <<>>, lit |-> "none", v |-> 0]
FNull == [k |-> "null", toks |-> <<>>, lit |-> "none", v |-> 0]
FOther == [k |-> "other", toks |-> <<>>, lit |-> "none", v |-> 0]  \* a list or an object
FInf == [k |-> "inf", toks |-> <<>>, lit |-> "none", v |-> 0]      \* 1e999
FNan == [k |-> "nan", toks |-> <<>>, lit |-> "none", v |-> 0]      \* NaN
FNum(v) == [k |-> "num", toks |-> <<>>, lit |-> "none", v |-> v]   \* v tenths
FWord(toks) == [k |-> "str", toks |-> toks, lit |-> "none", v |-> 0]
\* a string holding an integer literal ("7") or a decimal literal ("0.9")
FNumStr(lit, v) == [k |-> "str", toks |-> <<"0">>, lit |-> lit, v |-> v]

\* The reply: free text, JSON that is no object, or a JSON object with the
\* three members; fence tells whether it starts with a code fence.
DocText(toks) == [t |-> "text", toks |-> toks, cls |-> FMissing, conf |-> FMissing, pont |-> FMissing]
DocNonObj == [t |-> "nonobj", toks |-> <<>>, cls |-> FMissing, conf |-> FMissing, pont |-> FMissing]
DocObj(c, f, p) == [t |-> "obj", toks |-> <<>>, cls |-> c, conf |-> f, pont |-> p]
Reply(fence, doc) == [fence |-> fence, doc |-> doc]

\* The characters of the reply as far as the text heuristic reads them.
RawText(r) ==
  (IF r.fence THEN <<"fence">> ELSE <<>>)
    \o (IF r.doc.t = "obj"
        THEN r.doc.cls.toks \o <<",">> \o r.doc.conf.toks \o <<",">> \o r.doc.pont.toks
        ELSE r.doc.toks)

\* Lines 52-56: a reply that starts with a code fence loses its fence markers.
StripFence(r) == IF r.fence THEN [r EXCEPT !.fence = FALSE] ELSE r

\* int() of a finite number given in tenths: truncation toward zero.
Trunc(v) == IF v >= 0 THEN v \div 10 ELSE -((-v) \div 10)

\* A Python value or the exception raised in its place; sp tells a float that
\* is infinite or not a number.
Ok(v, sp) == [st |-> "ok", v |-> v, sp |-> sp, exc |-> "none"]
Raise(e) == [st |-> "raise", v |-> 0, sp |-> "fin", exc |-> e]

\* float(data.get("confidence", 0.5))
FloatOf(f) ==
  CASE f.k = "missing" -> Ok(DefaultConfidence, "fin")
    [] f.k = "num"     -> Ok(f.v, "fin")
    [] f.k = "inf"     -> Ok(0, "inf")
    [] f.k = "nan"     -> Ok(0, "nan")
    [] f.k = "str"     -> IF f.lit \in {"int", "float"} THEN Ok(f.v, "fin")
                          ELSE Raise("ValueError")
    [] OTHER           -> Raise("TypeError")

\* int(data.get("pontuation", 5))
IntOf(f) ==
  CASE f.k = "missing" -> Ok(DefaultPontuation, "fin")
    [] f.k = "num"     -> Ok(Trunc(f.v), "fin")
    [] f.k = "inf"     -> Raise("OverflowError")
    [] f.k = "nan"     -> Raise("ValueError")
    [] f.k = "str"     -> IF f.lit = "int" THEN Ok(Trunc(f.v), "fin")
                          ELSE Raise("ValueError")
    [] OTHER           -> Raise("TypeError")

\* max(0.0, min(1.0, confidence)): min(1.0, x) keeps 1.0 unless x < 1.0, so
\* an infinite or not-a-number confidence comes out as 1.0.
ClampConfidence(x) ==
  IF x.sp # "fin" THEN ConfidenceMax ELSE Max(0, Min(ConfidenceMax, x.v))

\* The pontuation passed on as the model gave it.
ClampPontuationNone(p) == p

\* max(0, min(10, pontuation))
ClampPontuation(p) == Max(0, Min(PontuationMax, p))

\* The classification after data.get("classification", "Improdutivo").
ClassificationToks(f) == IF f.k = "missing" THEN <<"Im", "produtivo">> ELSE f.toks

\* Lines 65-71: the category from the (string) classification member.
NormalizeClassification(toks) ==
  IF Contains(LowerSeq(toks), PRODUTIVO)
  THEN IF Contains(LowerSeq(toks), IMPRODUTIVO) THEN "Improdutivo" ELSE "Produtivo"
  ELSE "Improdutivo"

Result(c, conf, p) ==
  [st |-> "ok", classification |-> c, confidence |-> conf, pontuation |-> p, exc |-> "none"]
Raised(e) ==
  [st |-> "raise", classification |-> "none", confidence |-> 0, pontuation |-> 0, exc |-> e]

\* Lines 83-100: the text heuristic over the whole reply.
Fallback(r) ==
  IF Contains(LowerSeq(RawText(r)), PRODUTIVO) /\ ~Contains(LowerSeq(RawText(r)), IMPRODUTIVO)
  THEN Result("Produtivo", DefaultConfidence, FallbackProdutivo)
  ELSE Result("Improdutivo", DefaultConfidence, FallbackImprodutivo)

\* Which exceptions the except clause of line 83 catches.
Caught(e) == e \in {"JSONDecodeError", "ValueError", "KeyError"}

\* Lines 50-81: the try block; the result or the exception it ends with.
TryParse(r) ==
  LET cleaned == StripFence(r)
      c == FloatOf(r.doc.conf)
      p == IntOf(r.doc.pont)
  IN IF cleaned.fence \/ cleaned.doc.t = "text" THEN Raised("JSONDecodeError")
     ELSE IF cleaned.doc.t = "nonobj" THEN Raised("AttributeError")
     ELSE IF c.st = "raise" THEN Raised(c.exc)
     ELSE IF p.st = "raise" THEN Raised(p.exc)
     ELSE IF r.doc.cls.k \notin {"missing", "str"} THEN Raised("AttributeError")
     ELSE Result(NormalizeClassification(ClassificationToks(r.doc.cls)),
                 ClampConfidence(c), ClampPontuation(p.v))

extract_classification_data(r) ==
  LET t == TryParse(r)
  IN IF t.st = "raise" /\ Caught(t.exc) THEN Fallback(r) ELSE t

\* --------------------------------------------------------- nlp/preprocess.py
\* A text is a sequence of pieces: the literal substrings "http" and "www",
\* and single characters: the letters "s", "a" and "x", the capital "X", the
\* punctuation marks "@" and ".", and the blank " ".
Chars == {"http", "www", "s", "a", "X", "@", ".", " "}
Strings == UNION {[1..n -> Chars] : n \in 0..MaxChars}

\* str.isspace of one character
IsSpace(c) == c = " "

\* c in string.punctuation
IsPunctuation(c) == c \in {"@", "."}

\* str.lower()
lower(s) == [i \in DOMAIN s |-> IF s[i] = "X" THEN "x" ELSE s[i]]

\* The pieces of s at the positions where keep holds.
RECURSIVE Pick(_, _, _)
Pick(s, keep, i) ==
  IF i > Len(s) THEN <<>>
  ELSE (IF keep[i] THEN <<s[i]>> ELSE <<>>) \o Pick(s, keep, i + 1)

\* The first and the last position of the run of non-blank pieces around i.
RunStart(s, i) ==
  CHOOSE p \in 1..i :
    /\ \A j \in p..i : ~IsSpace(s[j])
    /\ p = 1 \/ IsSpace(s[p - 1])
RunEnd(s, i) ==
  CHOOSE q \in i..Len(s) :
    /\ \A j \in i..q : ~IsSpace(s[j])
    /\ q = Len(s) \/ IsSpace(s[q + 1])

\* The text with its URLs left in.
RemoveUrlsNone(s) == s

\* re.sub(r'http\S+|www\S+|https\S+', '', s): the leftmost "http" or "www"
\* of a run that is followed by a non-blank piece is deleted together with
\* the rest of its run (the third alternative matches nothing the first
\* does not).
RemoveUrls(s) ==
  Pick(s, [i \in 1..Len(s) |->
             \/ IsSpace(s[i])
             \/ ~\E p \in RunStart(s, i)..i :
                   s[p] \in {"http", "www"} /\ p < RunEnd(s, i)], 1)

\* re.sub(r'\S+@\S+', '', s): a run with an "@" that is neither its first nor
\* its last piece is deleted whole (both \S+ are greedy).
RemoveEmails(s) ==
  Pick(s, [i \in 1..Len(s) |->
             \/ IsSpace(s[i])
             \/ ~\E q \in (RunStart(s, i) + 1)..(RunEnd(s, i) - 1) : s[q] = "@"], 1)

\* text.translate(translator): every punctuation mark becomes a blank.
remove_punctuation(s) == [i \in DOMAIN s |-> IF IsPunctuation(s[i]) THEN " " ELSE s[i]]

\* str.split(): the runs of non-blank pieces, in order.
RECURSIVE Split(_)
Split(s) ==
  IF s = <<>> THEN <<>>
  ELSE IF IsSpace(Head(s)) THEN Split(Tail(s))
  ELSE LET q == RunEnd(s, 1)
       IN <<SubSeq(s, 1, q)>> \o Split(SubSeq(s, q + 1, Len(s)))

\* ' '.join(tokens)
RECURSIVE Join(_)
Join(tokens) ==
  IF tokens = <<>> THEN <<>>
  ELSE IF Len(tokens) = 1 THEN tokens[1]
  ELSE tokens[1] \o <<" ">> \o Join(Tail(tokens))

remove_extra_whitespace(s) == Join(Split(s))

tokenize_basic(s) == Split(s)

\* The members of the stopword list that the pieces can spell: "a" and "as".
PORTUGUESE_STOPWORDS == {<<"a">>, <<"a", "s">>}

remove_stopwords_basic(tokens) ==
  SelectSeq(tokens, LAMBDA token : lower(token) \notin PORTUGUESE_STOPWORDS)

\* What the linguistic model can make of a text: spaCy's lemmas are its own
\* strings, here the tokens unchanged, nothing, or a lemma with capitals and
\* punctuation.
Lemmas(s) == {Split(s), <<>>, <<<<".", "X", ".">>>>}

\* Lines 144-164 of preprocess_text: the text before the linguistic step.
Cleaned(text) ==
  remove_extra_whitespace(remove_punctuation(RemoveEmails(RemoveUrls(lower(text)))))

\* preprocess_text(text, use_lemmatization): the results it can return.
preprocess_text(text, use_lemmatization, spacy_available) ==
  IF text = <<>> \/ Split(text) = <<>> THEN {<<>>}
  ELSE IF spacy_available /\ use_lemmatization
       THEN {remove_extra_whitespace(Join(l)) : l \in Lemmas(Cleaned(text))}
       ELSE {remove_extra_whitespace(
               Join(remove_stopwords_basic(tokenize_basic(Cleaned(text)))))}

\* ------------------------------------------------------------- the backend
\* What one call of client.chat.completions.create can end with.
TransientFaults == {"APIConnectionError", "APITimeoutError", "RateLimitError"}
PermanentFaults == {"AuthenticationError", "BadRequestError", "InternalServerError", "Exception"}
Faults == TransientFaults \cup PermanentFaults

\* Every APIError retried.
IsTransientAnyApiError(f) == f # "Exception"

\* retry_if_exception_type((APIConnectionError, RateLimitError)); a timeout
\* is an APIConnectionError.
IsTransient(f) == f \in TransientFaults

\* Replies to the classification prompt.
ModelReplies ==
  { Reply(FALSE, DocObj(FWord(<<"Produtivo">>), FNum(12), FNum(150))),
    Reply(TRUE, DocObj(FWord(<<"IM", "PRODUTIVO">>), FNum(-3), FNum(-25))),
    Reply(FALSE, DocObj(FWord(<<"Produtivo">>), FWord(<<"x">>), FNum(80))),
    Reply(FALSE, DocObj(FWord(<<"Produtivo">>), FNull, FNum(80))),
    Reply(FALSE, DocObj(FNum(10), FNum(9), FNum(80))),
    Reply(FALSE, DocNonObj),
    Reply(FALSE, DocText(<<"PRODUTIVO">>)) }

\* message.content of the reply-generation call: None or a text.
NoContent == <<"None">>
ReplyContents == {NoContent, <<" ", "ola", " ">>}

RECURSIVE LStrip(_)
LStrip(s) == IF s # <<>> /\ Head(s) = " " THEN LStrip(Tail(s)) ELSE s
RECURSIVE RStrip(_)
RStrip(s) == IF s # <<>> /\ s[Len(s)] = " " THEN RStrip(SubSeq(s, 1, Len(s) - 1)) ELSE s
\* str.strip()
Strip(s) == RStrip(LStrip(s))

\* Line 104: content.strip() if content else ""
ReturnText(content) == IF content = NoContent \/ content = <<>> THEN <<>> ELSE Strip(content)

\* --------------------------------------------------------------- the cache
\* result_cache is the TTLCache's entries in the order of its links, least
\* recently used first. used, src and first are not program state: the
\* entry's place among the entries by last use (insertion or read; 1 is the
\* one used longest ago), the text it was computed from and the response
\* returned to that request.
Entry(k, v, exp, used, src, first) ==
  [key |-> k, val |-> v, expires |-> exp, used |-> used, src |-> src, first |-> first]

HasKey(c, k) == \E i \in DOMAIN c : c[i].key = k
EntryOf(c, k) == c[CHOOSE i \in DOMAIN c : c[i].key = k]

RECURSIVE Without(_, _)
Without(c, k) ==
  IF c = <<>> THEN <<>>
  ELSE IF Head(c).key = k THEN Without(Tail(c), k)
  ELSE <<Head(c)>> \o Without(Tail(c), k)

\* TTLCache.expire(time): drops what is no longer live.
RECURSIVE Expire(_, _)
Expire(c, time) ==
  IF c = <<>> THEN <<>>
  ELSE IF time < Head(c).expires THEN <<Head(c)>> \o Expire(Tail(c), time)
  ELSE Expire(Tail(c), time)

\* A membership test that does not look at the expiry time.
CacheContainsPresent(c, k, time) == HasKey(c, k)

\* TTLCache.__contains__: present and not expired; the order is untouched.
CacheContains(c, k, time) == HasKey(c, k) /\ time < EntryOf(c, k).expires

\* A read that leaves the links as they are.
MoveNowhere(c, k) == c

\* A read that blanks the reply text of the entry it hands out.
MoveToEndBlanking(c, k) ==
  IF HasKey(c, k)
  THEN Without(c, k) \o <<[EntryOf(c, k) EXCEPT !.val.suggested_reply = <<>>]>>
  ELSE c

\* The links after TTLCache.__getitem__: the key moves to the end even when
\* it turns out expired.
MoveToEnd(c, k) == IF HasKey(c, k) THEN Without(c, k) \o <<EntryOf(c, k)>> ELSE c

\* The places by last use, counted again from 1.
Renumber(c) ==
  [i \in DOMAIN c |->
     [c[i] EXCEPT !.used = Cardinality({j \in DOMAIN c : c[j].used <= c[i].used})]]

\* The use of key k noted: its entry becomes the most recently used.
Touch(c, k) ==
  LET r == Renumber(c)
  IN Renumber([i \in DOMAIN r |->
                 IF r[i].key = k THEN [r[i] EXCEPT !.used = Len(r) + 1] ELSE r[i]])

\* A cache that makes room for nothing.
EvictNothing(c, size) == c

\* Cache.__setitem__'s eviction: popitem() while there is no room.
RECURSIVE EvictFor(_, _)
EvictFor(c, size) == IF Len(c) + 1 > size /\ c # <<>> THEN EvictFor(Tail(c), size) ELSE c

\* TTLCache.__setitem__ at clock value time, in a cache of capacity size.
CacheSet(c, size, k, v, time, src, first) ==
  LET live == Expire(c, time)
      room == IF HasKey(live, k) THEN live ELSE EvictFor(live, size)
  IN Touch(Without(room, k) \o <<Entry(k, v, time + CACHE_TTL, 0, src, first)>>, k)

\* --------------------------------------------------------------- the state
VARIABLES
  api_key,        \* OpenAIClient.api_key: "" when no credential is configured
  max_retries,    \* OpenAIClient.max_retries (settings.OPENAI_MAX_RETRIES)
  maxsize,        \* result_cache.maxsize (settings.CACHE_MAX_SIZE)
  now,            \* the clock the cache reads (time.monotonic), in ticks
  result_cache,   \* routes.result_cache
  email_history,  \* routes.email_history
  req,            \* the request or call in progress and where it stands
  resp,           \* the last HTTP response of the classify endpoint
  nlp             \* the nlp function applied last, its argument and its result

vars == <<api_key, max_retries, maxsize, now, result_cache, email_history, req, resp, nlp>>

NoText == Text("none", 0)
NoReply == Reply(FALSE, DocText(<<>>))
NoBody == [classification |-> "none", pontuation |-> 0, suggested_reply |-> <<>>, confidence |-> 0]

\* The handlers are coroutines that never suspend (chat_completion blocks),
\* so one request runs at a time; only the clock moves while it runs.
\*   pc        where the handler stands
\*   kind      "classify" (the endpoint) or "direct" (a call of chat_completion)
\*   phase     which chat_completion call is running
\*   attempt   tenacity's retry_state.attempt_number of that call
\*   callInv   backend invocations made by that call
\*   inv       backend invocations made by the request
\*   delays    the waits of that call, in seconds
\*   callOut   "running", "returned" or "raised", with callExc the exception
\*   content   message.content of the last attempt; returned: the call's value
\*   cache0    result_cache as the request found it (not program state)
\*   behind    a request with the same text has arrived and waits for the
\*             event loop (its text stays in text while the loop is idle)
\*   overlap   this request arrived while another one was running
\*   prevExc   how the call before this direct call ended: its exception, or
\*             "none" (not program state)
\* The user message of a chat_completion call: the template and the values
\* formatted into it.
Prompt(template, text, classification, pontuation) ==
  [template |-> template, email_content |-> text,
   classification |-> classification, pontuation |-> pontuation]
NoPrompt == Prompt("none", NoText, "none", 0)

\* CLASSIFICATION_PROMPT.format(email_content=email_content)
ClassificationPrompt(text) == Prompt("CLASSIFICATION_PROMPT", text, "none", 0)

\* RESPONSE_PROMPT_TEMPLATE.format(classification=..., pontuation=..., email_content=...)
ResponsePrompt(text, classification, pontuation) ==
  Prompt("RESPONSE_PROMPT_TEMPLATE", text, classification, pontuation)

\* Whether clear_history has run since the last request ended, and the texts
\* whose entries it removed.
NotCleared == [ran |-> FALSE, texts |-> {}]

IdleReq ==
  [pc |-> "idle", kind |-> "none", text |-> NoText, phase |-> "none",
   attempt |-> 0, callInv |-> 0, inv |-> 0, delays |-> <<>>,
   callOut |-> "none", callExc |-> "none",
   content |-> <<>>, reply |-> NoReply, returned |-> <<>>,
   result |-> Raised("none"), cache0 |-> <<>>, behind |-> FALSE, overlap |-> FALSE,
   prevExc |-> "none", prompt |-> NoPrompt, transients |-> 0,
   cleared |-> NotCleared]

\* The handler has ended: the event loop is free for the request that waits.
Ended(r) ==
  [IdleReq EXCEPT !.behind = r.behind, !.text = IF r.behind THEN r.text ELSE NoText]

\* status, body: what the client receives. via: the path the handler took
\* ("config", "hit", "miss", or where a miss failed: "classification",
\* "extract", "reply", "validate"); exc: the exception
\* behind an error; inv: the backend invocations the request made; src and
\* first: those of the entry a hit was served from.
NoResp ==
  [status |-> 0, via |-> "none", text |-> NoText, body |-> NoBody,
   exc |-> "none", inv |-> 0, src |-> NoText, first |-> NoBody]

Http(status, via, text, body, exc, inv, src, first) ==
  [status |-> status, via |-> via, text |-> text, body |-> body,
   exc |-> exc, inv |-> inv, src |-> src, first |-> first]

\* No nlp function applied yet: text is the argument, spacy the module's
\* SPACY_AVAILABLE.
Nlp(text, spacy) ==
  [fn |-> "none", text |-> text, spacy |-> spacy, lemm |-> FALSE,
   processed |-> <<>>, tokens |-> <<>>]
NoNlp == Nlp(<<>>, FALSE)

\* A client that reports itself configured whatever its key.
is_configured_always == TRUE

\* OpenAIClient.is_configured
is_configured == api_key # ""

Init ==
  /\ api_key \in {"", "sk"}
  /\ max_retries = OPENAI_MAX_RETRIES
  /\ maxsize = CACHE_MAX_SIZE
  /\ now = 0
  /\ result_cache = <<>>
  /\ email_history = <<>>
  /\ req = IdleReq
  /\ resp = NoResp
  /\ nlp = NoNlp

\* ------------------------------------------------------- chat_completion
\* Giving up one attempt early.
ShouldStopEarly(attempt) == attempt >= StopAfterAttempt - 1

\* Giving up one attempt late.
ShouldStopLate(attempt) == attempt >= StopAfterAttempt + 1

\* stop_after_attempt(3)
ShouldStop(attempt) == attempt >= StopAfterAttempt

\* The exponent taken as the attempt number itself.
WaitExponentialFromAttempt(n) ==
  Max(Max(0, WaitMin), Min(WaitMultiplier * Pow(WaitExpBase, n), WaitMax))

\* wait_exponential(multiplier=1, min=2, max=10) after attempt number n
WaitExponential(n) ==
  Max(Max(0, WaitMin), Min(WaitMultiplier * Pow(WaitExpBase, n - 1), WaitMax))

\* A call that goes on from the retry state the call before it left.
StartCallResuming(r, phase) ==
  [r EXCEPT !.pc = "attempt", !.phase = phase, !.attempt = Max(1, r.attempt),
            !.callInv = 0, !.callOut = "running", !.callExc = "none",
            !.content = <<>>, !.returned = <<>>]

\* A fresh chat_completion call: the retry state starts over.
StartCall(r, phase) ==
  [r EXCEPT !.pc = "attempt", !.phase = phase, !.attempt = 1, !.callInv = 0,
            !.delays = <<>>, !.callOut = "running", !.callExc = "none",
            !.content = <<>>, !.returned = <<>>]

\* Every failure reported as the service being unavailable.
FailAsUnavailable(r, e, via) ==
  /\ req' = IF r.kind = "classify" THEN Ended(r)
            ELSE [r EXCEPT !.pc = "idle", !.callOut = "raised", !.callExc = e]
  /\ resp' = IF r.kind = "classify"
             THEN Http(503, via, r.text, NoBody, e, r.inv, NoText, NoBody)
             ELSE resp

\* The request ends with an exception that leaves the handler.
Fail(r, e, via) ==
  /\ req' = IF r.kind = "classify" THEN Ended(r)
            ELSE [r EXCEPT !.pc = "idle", !.callOut = "raised", !.callExc = e]
  /\ resp' = IF r.kind = "classify"
             THEN Http(500, via, r.text, NoBody, e, r.inv, NoText, NoBody)
             ELSE resp

\* One pass through the decorated function body: the backend is invoked and
\* the call returns, raises, or goes to sleep before the next attempt.
\* With no credential the backend never answers with a completion.
AttemptReturnsReply(c) ==
  /\ req.pc = "attempt"
  /\ api_key # ""
  /\ req.phase = "classification"
  /\ req' = [req EXCEPT !.callInv = @ + 1, !.inv = @ + 1, !.callOut = "returned",
                        !.pc = "extract", !.reply = c]
  /\ UNCHANGED <<nlp, api_key, max_retries, maxsize, now, result_cache, email_history, resp>>

AttemptReturnsText(c) ==
  /\ req.pc = "attempt"
  /\ api_key # ""
  /\ req.phase \in {"reply", "direct"}
  /\ c \in ReplyContents
  /\ req' = [req EXCEPT !.callInv = @ + 1, !.inv = @ + 1, !.callOut = "returned",
                        !.pc = IF req.phase = "reply" THEN "respond" ELSE "idle",
                        !.content = c, !.returned = ReturnText(c)]
  /\ UNCHANGED <<nlp, api_key, max_retries, maxsize, now, result_cache, email_history, resp>>

AttemptFails(f) ==
  /\ req.pc = "attempt"
  /\ f \in Faults
  /\ LET r == [req EXCEPT !.callInv = @ + 1, !.inv = @ + 1]
     IN IF ~IsTransient(f) THEN Fail(r, f, req.phase)
        ELSE IF ShouldStop(req.attempt) THEN Fail(r, "RetryError", req.phase)
        ELSE /\ req' = [r EXCEPT !.pc = "backoff", !.transients = @ + 1,
                                 !.delays = Append(@, WaitExponential(req.attempt))]
             /\ resp' = resp
  /\ UNCHANGED <<nlp, api_key, max_retries, maxsize, now, result_cache, email_history>>

\* The sleep is over: tenacity moves to the next attempt.
Backoff ==
  /\ req.pc = "backoff"
  /\ req' = [req EXCEPT !.pc = "attempt", !.attempt = @ + 1]
  /\ UNCHANGED <<nlp, api_key, max_retries, maxsize, now, result_cache, email_history, resp>>

\* chat_completion called on its own (as generate_quick_reply does), whatever
\* the configuration.
DirectCall ==
  /\ req.pc = "idle"
  /\ req' = StartCall([IdleReq EXCEPT !.kind = "direct", !.prevExc = req.callExc,
                                       !.attempt = req.attempt, !.delays = req.delays],
                      "direct")
  /\ UNCHANGED <<nlp, api_key, max_retries, maxsize, now, result_cache, email_history, resp>>

\* ---------------------------------------------------- classify_email_endpoint
\* EmailClassifyResponse(...): the fields pydantic accepts.
ValidResponse(b) ==
  /\ b.classification \in {"Produtivo", "Improdutivo"}
  /\ b.pontuation \in 0..PontuationMax
  /\ b.confidence \in 0..ConfidenceMax

Body(result, reply) ==
  [classification |-> result.classification, pontuation |-> result.pontuation,
   suggested_reply |-> reply, confidence |-> result.confidence]

\* The history item holding the whole raw text.
HistoryItemWhole(text, b) ==
  [email_content |-> text, classification |-> b.classification,
   pontuation |-> b.pontuation, suggested_reply |-> b.suggested_reply,
   confidence |-> b.confidence]

\* EmailHistoryItem(...); id and created_at are left out.
HistoryItem(text, b) ==
  [email_content |-> Truncate(text), classification |-> b.classification,
   pontuation |-> b.pontuation, suggested_reply |-> b.suggested_reply,
   confidence |-> b.confidence]

\* The entry stored before the reply text is in it.
CachedWithoutReply(response) == [response EXCEPT !.suggested_reply = <<>>]

\* What line 119 stores under the cache key.
Cached(response) == response

\* Lines 82-91: the request arrives; without a credential it ends at once.
ClassifyRequest(t) ==
  /\ req.pc = "idle"
  /\ IF ~is_configured
     THEN /\ req' = IdleReq
          /\ resp' = Http(503, "config", t, NoBody, "HTTPException", 0, NoText, NoBody)
     ELSE /\ req' = [IdleReq EXCEPT !.pc = "contains", !.kind = "classify", !.text = t,
                                    !.cache0 = result_cache, !.overlap = req.behind,
                                    !.cleared = req.cleared]
          /\ resp' = NoResp
  /\ UNCHANGED <<nlp, api_key, max_retries, maxsize, now, result_cache, email_history>>

\* Lines 94-95: cache_key in result_cache; on a miss classify_email starts
\* and reaches its chat_completion call.
CacheLookup ==
  /\ req.pc = "contains"
  /\ req' = IF CacheContains(result_cache, get_cache_key(req.text), now)
            THEN [req EXCEPT !.pc = "getitem"]
            ELSE StartCall([req EXCEPT !.prompt = ClassificationPrompt(req.text)],
                           "classification")
  /\ UNCHANGED <<nlp, api_key, max_retries, maxsize, now, result_cache, email_history, resp>>

\* Line 97: result_cache[cache_key]; a KeyError leaves the handler and
\* becomes the 500 of main.general_exception_handler.
CacheRead ==
  /\ req.pc = "getitem"
  /\ LET k == get_cache_key(req.text)
         e == EntryOf(result_cache, k)
     IN /\ result_cache' = Touch(MoveToEnd(result_cache, k), k)
        /\ resp' = IF now < e.expires
                   THEN Http(200, "hit", req.text, e.val, "none", req.inv, e.src, e.first)
                   ELSE Http(500, "hit", req.text, NoBody, "KeyError", req.inv, NoText, NoBody)
  /\ req' = Ended(req)
  /\ UNCHANGED <<nlp, api_key, max_retries, maxsize, now, email_history>>

\* The classification cached as soon as it is known, before the reply call.
ExtractCachingEarly ==
  /\ req.pc = "extract"
  /\ LET r == extract_classification_data(req.reply)
     IN IF r.st = "ok"
        THEN /\ req' = StartCall([req EXCEPT !.result = r,
                                   !.prompt = ResponsePrompt(req.text, r.classification,
                                                             r.pontuation)],
                                 "reply")
             /\ resp' = resp
             /\ result_cache' = CacheSet(result_cache, maxsize, get_cache_key(req.text),
                                         Body(r, <<>>), now, req.text, Body(r, <<>>))
        ELSE /\ Fail([req EXCEPT !.result = r], r.exc, "extract")
             /\ UNCHANGED result_cache
  /\ UNCHANGED <<nlp, api_key, max_retries, maxsize, now, email_history>>

\* classifier.py line 156: the reply is interpreted; then generate_response
\* starts and reaches its chat_completion call.
Extract ==
  /\ req.pc = "extract"
  /\ LET r == extract_classification_data(req.reply)
     IN IF r.st = "ok"
        THEN /\ req' = StartCall([req EXCEPT !.result = r,
                                   !.prompt = ResponsePrompt(req.text, r.classification,
                                                             r.pontuation)],
                                 "reply")
             /\ resp' = resp
        ELSE Fail([req EXCEPT !.result = r], r.exc, "extract")
  /\ UNCHANGED <<nlp, api_key, max_retries, maxsize, now, result_cache, email_history>>

\* Lines 110-135: the response is built, cached and appended to the history.
Respond ==
  /\ req.pc = "respond"
  /\ LET b == Body(req.result, Strip(req.returned))
     IN IF ValidResponse(b)
        THEN /\ result_cache' = CacheSet(result_cache, maxsize, get_cache_key(req.text),
                                         Cached(b), now, req.text, b)
             /\ email_history' = Append(email_history, HistoryItem(req.text, b))
             /\ resp' = Http(200, "miss", req.text, b, "none", req.inv, req.text, b)
             /\ req' = Ended(req)
        ELSE /\ Fail(req, "ValidationError", "validate")
             /\ UNCHANGED <<result_cache, email_history>>
  /\ UNCHANGED <<nlp, api_key, max_retries, maxsize, now>>

\* A second request with the text of the running one reaches the server.
\* The running handler never suspends (its awaits are of coroutines that
\* block in chat_completion), so the request waits until the handler ends.
Arrive ==
  /\ req.kind = "classify" /\ req.pc # "idle"
  /\ ~req.behind
  /\ req' = [req EXCEPT !.behind = TRUE]
  /\ UNCHANGED <<nlp, api_key, max_retries, maxsize, now, result_cache, email_history, resp>>

\* The waiting request is started while a handler is still in a remote call.
DispatchEarly ==
  /\ req.behind
  /\ req.pc \in {"idle", "attempt"}
  /\ req' = [IdleReq EXCEPT !.pc = "contains", !.kind = "classify", !.text = req.text,
                            !.cache0 = result_cache, !.overlap = TRUE]
  /\ UNCHANGED <<nlp, api_key, max_retries, maxsize, now, result_cache, email_history, resp>>

\* The event loop is free: the waiting request's handler starts.
Dispatch ==
  /\ req.behind
  /\ ClassifyRequest(req.text)

\* The JSON body of a POST to /classify-email: with or without the member
\* email_content.
NoField == [present |-> FALSE, email_content |-> Text("none", 0)]
Json(t) == [present |-> TRUE, email_content |-> t]

\* EmailClassifyRequest: email_content is required, min_length=1,
\* max_length=50000.
IsValidRequest(b) ==
  /\ b.present
  /\ b.email_content.len >= MinContentLength
  /\ b.email_content.len <= MaxContentLength

\* The request as FastAPI handles it: the body is validated against
\* EmailClassifyRequest; a RequestValidationError is answered 400 by
\* main.validation_exception_handler, otherwise the handler starts.
PostClassify(b) ==
  IF IsValidRequest(b)
  THEN ClassifyRequest(b.email_content)
  ELSE /\ req.pc = "idle"
       /\ resp' = Http(400, "validation", b.email_content, NoBody,
                       "RequestValidationError", 0, NoText, NoBody)
       /\ UNCHANGED <<nlp, api_key, max_retries, maxsize, now, result_cache, email_history, req>>

\* The texts whose entries the cache holds.
CachedTexts(c) == {c[i].src : i \in DOMAIN c}

\* The history cleared and the cache kept.
clear_history_keeping_cache ==
  /\ req.pc = "idle"
  /\ email_history' = <<>>
  /\ req' = [req EXCEPT !.cleared = [ran |-> TRUE,
                                     texts |-> @.texts \cup CachedTexts(result_cache)]]
  /\ UNCHANGED <<nlp, api_key, max_retries, maxsize, now, result_cache, resp>>

\* Lines 273-278
clear_history ==
  /\ req.pc = "idle"
  /\ email_history' = <<>>
  /\ result_cache' = <<>>
  /\ req' = [req EXCEPT !.cleared = [ran |-> TRUE,
                                     texts |-> @.texts \cup CachedTexts(result_cache)]]
  /\ UNCHANGED <<nlp, api_key, max_retries, maxsize, now, resp>>

\* Lines 245-265: GET /history; limit 0 stands for no limit given.
get_history(limit) ==
  IF limit # 0 THEN SubSeq(email_history, 1, Min(limit, Len(email_history)))
  ELSE email_history

\* Time passes.
Tick ==
  /\ now < MaxTime
  /\ now' = now + 1
  /\ UNCHANGED <<nlp, api_key, max_retries, maxsize, result_cache, email_history, req, resp>>

\* The service: requests to the classify endpoint and to clear_history.
Next ==
  \/ \E t \in Texts : Len(email_history) < MaxHistory /\ ClassifyRequest(t)
  \/ CacheLookup
  \/ CacheRead
  \/ \E c \in ModelReplies : AttemptReturnsReply(c)
  \/ \E c \in ReplyContents : AttemptReturnsText(c)
  \/ \E f \in Faults : AttemptFails(f)
  \/ Backoff
  \/ Extract
  \/ Respond
  \/ clear_history
  \/ Tick

Spec == Init /\ [][Next]_vars

\* The completion client on its own, under every configuration.
InitClient ==
  /\ api_key \in {"", "sk"}
  /\ max_retries \in 1..MaxRetriesCfg
  /\ maxsize = CACHE_MAX_SIZE
  /\ now = 0
  /\ result_cache = <<>>
  /\ email_history = <<>>
  /\ req = IdleReq
  /\ resp = NoResp
  /\ nlp = NoNlp

NextClient ==
  \/ DirectCall
  \/ \E c \in ReplyContents : AttemptReturnsText(c)
  \/ \E f \in Faults : AttemptFails(f)
  \/ Backoff

SpecClient == InitClient /\ [][NextClient]_vars

\* The cache under requests for three texts with distinct keys, answered by
\* a backend that gives one classification and one reply text or refuses the
\* credential; the capacity is any of 1..MaxCacheSize.
CacheTexts == {Text("a", 5), Text("b", 600), Text("c", 5)}
CacheReplies == {Reply(FALSE, DocObj(FWord(<<"Produtivo">>), FNum(12), FNum(150)))}
CacheContents == {<<" ", "ola", " ">>}
CacheFaults == {"AuthenticationError"}

InitCache ==
  /\ api_key = "sk"
  /\ max_retries = OPENAI_MAX_RETRIES
  /\ maxsize \in 1..MaxCacheSize
  /\ now = 0
  /\ result_cache = <<>>
  /\ email_history = <<>>
  /\ req = IdleReq
  /\ resp = NoResp
  /\ nlp = NoNlp

NextCache ==
  \/ \E t \in CacheTexts : Len(email_history) < MaxHistory + 1 /\ ClassifyRequest(t)
  \/ CacheLookup
  \/ CacheRead
  \/ \E c \in CacheReplies : AttemptReturnsReply(c)
  \/ \E c \in CacheContents : AttemptReturnsText(c)
  \/ \E f \in CacheFaults : AttemptFails(f)
  \/ Extract
  \/ Respond
  \/ clear_history
  \/ Tick

SpecCache == InitCache /\ [][NextCache]_vars

\* The service under requests that arrive while a request for the same text
\* is being handled.
ConcTexts == {Text("a", 5), Text("b", 600)}
ConcReplies == CacheReplies \cup {Reply(FALSE, DocNonObj)}
ConcFaults == {"RateLimitError", "AuthenticationError"}

InitConc ==
  /\ api_key = "sk"
  /\ max_retries = OPENAI_MAX_RETRIES
  /\ maxsize = CACHE_MAX_SIZE
  /\ now = 0
  /\ result_cache = <<>>
  /\ email_history = <<>>
  /\ req = IdleReq
  /\ resp = NoResp
  /\ nlp = NoNlp

NextConc ==
  \/ \E t \in ConcTexts : ~req.behind /\ Len(email_history) < MaxHistory /\ ClassifyRequest(t)
  \/ Arrive
  \/ Dispatch
  \/ CacheLookup
  \/ CacheRead
  \/ \E c \in ConcReplies : AttemptReturnsReply(c)
  \/ \E c \in CacheContents : AttemptReturnsText(c)
  \/ \E f \in ConcFaults : AttemptFails(f)
  \/ Backoff
  \/ Extract
  \/ Respond
  \/ Tick

SpecConc == InitConc /\ [][NextConc]_vars

\* The service under request bodies of every kind: no field, the empty
\* text, texts of 1, 600, 50000 and 50001 characters, and a text of blanks.
InputBodies ==
  { NoField, Json(Text("b", 0)), Json(Text("a", 1)), Json(Text("b", 600)),
    Json(Text("d", 50000)), Json(Text("d", 50001)), Json(Text("ws", 3)) }

NextInput ==
  \/ \E b \in InputBodies : Len(email_history) < MaxHistory /\ PostClassify(b)
  \/ CacheLookup
  \/ CacheRead
  \/ \E c \in CacheReplies : AttemptReturnsReply(c)
  \/ \E c \in CacheContents : AttemptReturnsText(c)
  \/ \E f \in CacheFaults : AttemptFails(f)
  \/ Extract
  \/ Respond
  \/ clear_history
  \/ Tick

SpecInput == Init /\ [][NextInput]_vars

\* One step of a running chat_completion call: an attempt ends or a sleep
\* is over.
CallStep ==
  \/ \E c \in ModelReplies : AttemptReturnsReply(c)
  \/ \E c \in ReplyContents : AttemptReturnsText(c)
  \/ \E f \in Faults : AttemptFails(f)
  \/ Backoff

\* The same service with a backend that ends every attempt (create()
\* returns, raises or times out after OPENAI_TIMEOUT) and sleeps that end.
SpecLive == SpecConc /\ WF_vars(CallStep)

\* The interpretation of the model's reply under replies of every shape:
\* free text, JSON that is no object, and objects whose three members are
\* each missing, null, a number in or out of range, infinite, not a number,
\* or a string.
InterpretClassifications ==
  { FMissing, FNull, FNum(10), FWord(<<"Produtivo">>), FWord(<<"IM", "PRODUTIVO">>),
    FWord(<<"Im", "produtivo">>), FWord(<<"x">>) }
InterpretConfidences ==
  { FMissing, FNull, FNum(-3), FNum(9), FNum(12), FInf, FNan, FWord(<<"x">>),
    FNumStr("float", 9), FWord(<<"im", "produtivo">>) }
InterpretPontuations ==
  { FMissing, FNull, FNum(-25), FNum(79), FNum(80), FNum(150), FInf, FNan,
    FNumStr("int", 70), FNumStr("float", 75) }
InterpretTexts ==
  { <<>>, <<"x">>, <<"PRODUTIVO">>, <<"Im", "produtivo">>,
    <<"Produtivo", "x", "im", "produtivo">>, <<"x", "produtivo">> }

InterpretReplies ==
  { Reply(fence, DocObj(c, f, p)) :
      fence \in BOOLEAN, c \in InterpretClassifications,
      f \in InterpretConfidences, p \in InterpretPontuations }
  \cup { Reply(fence, DocText(toks)) : fence \in BOOLEAN, toks \in InterpretTexts }
  \cup { Reply(FALSE, DocNonObj) }

NextInterpret ==
  \/ \E t \in {Text("a", 5)} : ClassifyRequest(t)
  \/ CacheLookup
  \/ \E c \in InterpretReplies : AttemptReturnsReply(c)
  \/ Extract

SpecInterpret == InitConc /\ [][NextInterpret]_vars

\* The nlp functions applied to every text of at most MaxChars pieces, with
\* and without a linguistic model loaded.
PreprocessText(use_lemmatization) ==
  /\ nlp.fn = "none"
  /\ \E out \in preprocess_text(nlp.text, use_lemmatization, nlp.spacy) :
       nlp' = [nlp EXCEPT !.fn = "preprocess_text", !.lemm = use_lemmatization,
                          !.processed = out]
  /\ UNCHANGED <<api_key, max_retries, maxsize, now, result_cache, email_history, req, resp>>

TokenizeBasic ==
  /\ nlp.fn = "none"
  /\ nlp' = [nlp EXCEPT !.fn = "tokenize_basic", !.tokens = tokenize_basic(nlp.text)]
  /\ UNCHANGED <<api_key, max_retries, maxsize, now, result_cache, email_history, req, resp>>

InitNlp ==
  /\ api_key = "sk"
  /\ max_retries = OPENAI_MAX_RETRIES
  /\ maxsize = CACHE_MAX_SIZE
  /\ now = 0
  /\ result_cache = <<>>
  /\ email_history = <<>>
  /\ req = IdleReq
  /\ resp = NoResp
  /\ nlp \in {Nlp(text, spacy) : text \in Strings, spacy \in BOOLEAN}

NextNlp ==
  \/ \E use_lemmatization \in BOOLEAN : PreprocessText(use_lemmatization)
  \/ TokenizeBasic

SpecNlp == InitNlp /\ [][NextNlp]_vars

\* ================================================================= claims
MissPcs == {"attempt", "backoff", "extract", "respond"}

InRange(b) ==
  /\ b.classification \in {"Produtivo", "Improdutivo"}
  /\ b.pontuation \in 0..10
  /\ b.confidence \in 0..10

\* C1: with no credential configured, every classify request ends at once
\* with the configuration error 503: it makes no backend invocation, never
\* reaches the cache lookup, and leaves result_cache and email_history as
\* they were.
C1_UnconfiguredIs503 ==
  [][(api_key = "" /\ \E t \in Texts : ClassifyRequest(t))
       => /\ resp'.status = 503
          /\ resp'.inv = 0
          /\ req'.pc = "idle"
          /\ result_cache' = result_cache
          /\ email_history' = email_history]_vars

C1_Witness == api_key = "" /\ resp.status = 503 /\ resp.via = "config"

\* C2: a request served from the unexpired entry that an earlier request for
\* the same text inserted gets exactly the response that earlier request
\* got, and makes no backend invocation.
C2_HitReturnsFirstResult ==
  (resp.status = 200 /\ resp.via = "hit" /\ resp.src = resp.text)
    => (resp.body = resp.first /\ resp.inv = 0)

C2_Witness ==
  /\ resp.status = 200 /\ resp.via = "hit" /\ resp.src = resp.text
  /\ resp.body.suggested_reply # <<>>

\* C3: a classify request that fails after a cache miss (a remote call
\* fails, the interpretation fails, or the reply call fails after the
\* classification succeeded) ends with 500 and leaves result_cache exactly
\* as the request found it.
C3_FailedMissLeavesCache ==
  [][(req.kind = "classify" /\ req.pc \in MissPcs /\ req'.pc = "idle"
        /\ resp'.status # 200)
       => (resp'.status = 500 /\ result_cache' = req.cache0)]_vars

C3_Witness ==
  /\ resp.status = 500 /\ resp.via = "reply" /\ resp.exc = "RetryError"
  /\ result_cache # <<>>

\* C4: whatever the model replies, a classify request ends with 200 and a
\* result in range (category Produtivo or Improdutivo, pontuation 0..10,
\* confidence 0.0..1.0), or with 503 or 500; the interpreted result, the
\* cache and the history never hold a value out of range.
C4_ResultsInRange ==
  /\ resp.status \in {0, 200, 500, 503}
  /\ resp.status = 200 => InRange(resp.body)
  /\ req.result.st = "ok" => InRange(req.result)
  /\ \A i \in DOMAIN result_cache : InRange(result_cache[i].val)
  /\ \A i \in DOMAIN email_history : InRange(email_history[i])
  /\ req.text \in Texts => req.text.len \in MinContentLength..MaxContentLength

C4_Witness ==
  /\ resp.status = 200 /\ resp.via = "miss"
  /\ resp.body.pontuation = 10 /\ resp.body.confidence = 10
  /\ Len(email_history) > 0
\* C5: interpreting the model's reply never fails: no classify request ends
\* with an error raised by extract_classification_data.
C5_InterpretNeverFails == ~(resp.status = 500 /\ resp.via = "extract")

\* s is c without its leading and trailing blanks.
IsStripped(s, c) ==
  \E i \in 1..(Len(c) + 1) : \E j \in 0..Len(c) :
    /\ s = SubSeq(c, i, j)
    /\ \A k \in 1..(i - 1) : c[k] = " "
    /\ \A k \in (j + 1)..Len(c) : c[k] = " "
    /\ s # <<>> => (s[1] # " " /\ s[Len(s)] # " ")

\* C6: a chat_completion call whose first two attempts fail transiently and
\* whose third succeeds returns the third attempt's text, stripped, after
\* exactly 3 backend invocations; a call gives up on transient faults only
\* after 3 invocations.
C6_ThirdAttemptSucceeds ==
  /\ (req.callOut = "returned" /\ Len(req.delays) = 2)
       => /\ req.callInv = 3
          /\ IF req.content = NoContent THEN req.returned = <<>>
             ELSE IsStripped(req.returned, req.content)
  /\ (req.callOut = "raised" /\ req.callExc = "RetryError") => req.callInv >= 3

C6_Witness ==
  /\ req.callOut = "returned" /\ Len(req.delays) = 2
  /\ req.callInv = 3 /\ req.content = <<" ", "ola", " ">> /\ req.returned = <<"ola">>

\* C7: against a backend that always fails transiently, chat_completion
\* invokes it exactly max_retries times before the failure is surfaced.
C7_AttemptsEqualMaxRetries ==
  (req.callOut = "raised" /\ req.callExc = "RetryError") => req.callInv = max_retries

\* C8 as claimed: a call that ends with a non-transient fault has invoked
\* the backend exactly once and has not waited.
C8_InvokedExactlyOnce ==
  (req.callOut = "raised" /\ req.callExc \in PermanentFaults)
    => (req.callInv = 1 /\ req.delays = <<>>)

\* C8: an attempt that fails with a non-transient fault ends the call with
\* that fault at once: no wait and no further invocation follow it, so a
\* fault on attempt k leaves exactly k invocations and k - 1 waits (one
\* invocation and no wait when it is the first attempt).
C8_PermanentFaultEndsCall ==
  /\ []((req.callOut = "raised" /\ req.callExc \in PermanentFaults)
          => (req.pc = "idle" /\ req.callInv = req.attempt
                /\ Len(req.delays) = req.callInv - 1))
  /\ [][\A f \in PermanentFaults :
          AttemptFails(f)
            => (req'.callOut = "raised" /\ req'.callExc = f /\ req'.pc = "idle"
                  /\ req'.callInv = req.callInv + 1
                  /\ req'.delays = req.delays)]_vars

C8_Witness ==
  /\ req.callOut = "raised" /\ req.callExc = "AuthenticationError"
  /\ req.callInv = 2 /\ Len(req.delays) = 1

\* C9: with no credential configured a call of chat_completion never
\* invokes the backend, and is_configured is false exactly then.
C9_NoInvocationWithoutCredential ==
  /\ api_key = "" => req.callInv = 0
  /\ is_configured <=> api_key # ""

\* C10 as claimed: the waits of a call start at the 2-second floor and each
\* is double the one before, capped at 10 seconds.
C10_DelaysDouble ==
  /\ \A k \in DOMAIN req.delays : req.delays[k] \in 2..10
  /\ Len(req.delays) >= 1 => req.delays[1] = 2
  /\ \A k \in 1..(Len(req.delays) - 1) :
       req.delays[k + 1] = (IF 2 * req.delays[k] > 10 THEN 10 ELSE 2 * req.delays[k])

\* C10: the wait after attempt k is 2^(k-1) seconds clamped into [2, 10]:
\* the doubling starts from 1 second and the 2-second floor is a lower
\* clamp, so the two waits of a call are both 2 seconds.
C10_DelaysClamped ==
  \A k \in DOMAIN req.delays :
    /\ req.delays[k] \in 2..10
    /\ req.delays[k] = (IF Pow(2, k - 1) < 2 THEN 2
                        ELSE IF Pow(2, k - 1) > 10 THEN 10 ELSE Pow(2, k - 1))

C10_Witness == req.delays = <<2, 2>> /\ req.pc = "backoff" /\ req.attempt = 2

CallPcs == {"attempt", "backoff"}

\* C11: every chat_completion call terminates: a running call makes at most
\* 3 attempts and 2 waits and then returns or raises; when the third attempt
\* of a call made by classify fails transiently, the request ends at once
\* with 500 (RetryError), with no further invocation and no wait.
C11_CallTerminates ==
  /\ [](req.pc \in CallPcs
         => (req.attempt \in 1..3 /\ req.callInv <= 3 /\ Len(req.delays) <= 2
               /\ req.callInv = req.attempt - (IF req.pc = "attempt" THEN 1 ELSE 0)
               /\ Len(req.delays) = req.callInv))
  /\ [][\A f \in TransientFaults :
          (AttemptFails(f) /\ req.kind = "classify" /\ req.attempt = 3)
            => (resp'.status = 500 /\ resp'.exc = "RetryError"
                  /\ resp'.inv = req.inv + 1 /\ req'.pc = "idle")]_vars
  /\ [][(req.pc = "backoff") => (req'.pc \in CallPcs /\ req.attempt < 3)]_vars
  /\ [](req.pc \in CallPcs => <>(req.pc \notin CallPcs))

C11_Witness ==
  /\ resp.status = 500 /\ resp.via = "classification" /\ resp.exc = "RetryError"
  /\ resp.inv = 3 /\ req.pc = "idle"

\* C12: the two failure kinds end differently: with no credential every
\* classify request ends with 503 and never 500; with a credential no
\* request ends with 503, and a request on which a remote call or the
\* interpretation of the reply fails ends with 500.
C12_FailureKinds ==
  /\ [](api_key = "" => resp.status \in {0, 503})
  /\ [](api_key # "" => resp.status # 503)
  /\ [](resp.status = 503 <=> resp.via = "config")
  /\ [](resp.via \in {"classification", "extract", "reply"}
         => (resp.status = 500 /\ api_key # ""))
  /\ [][(req.kind = "classify" /\ req.pc \in {"attempt", "extract"}
          /\ req'.pc = "idle")
         => (resp'.status = 500 /\ resp'.via \in {"classification", "extract", "reply"}
               /\ resp'.exc \notin {"none", "HTTPException"})]_vars

C12_Witness ==
  /\ api_key = "sk" /\ resp.status = 500 /\ resp.via = "classification"
  /\ resp.exc = "AuthenticationError" /\ resp.inv = 1

\* The entries of c that are live at the clock value time.
Live(c, time) == Expire(c, time)
Keys(c) == {c[i].key : i \in DOMAIN c}

\* C13: after any sequence of classify requests, expiries and clears the
\* result cache holds at most maxsize entries, one per key; inserting a new
\* key into a cache that holds maxsize unexpired entries leaves exactly
\* maxsize entries, the new one among them (2 entries after 3 distinct
\* inserts when maxsize is 2).
C13_CacheWithinMaxSize ==
  /\ [](Len(result_cache) <= maxsize)
  /\ [](Cardinality(Keys(result_cache)) = Len(result_cache))
  /\ [][(Respond /\ resp'.status = 200
          /\ Len(Live(result_cache, now)) = maxsize
          /\ ~HasKey(result_cache, get_cache_key(req.text)))
         => (Len(result_cache') = maxsize
               /\ HasKey(result_cache', get_cache_key(req.text))
               /\ Len(Live(result_cache', now)) = maxsize)]_vars

C13_Witness ==
  /\ maxsize = 2 /\ Len(result_cache) = 2 /\ Len(Live(result_cache, now)) = 2
  /\ Len(email_history) = 3
  /\ Cardinality({email_history[i].email_content.body : i \in 1..3}) = 3
  /\ now < 2

\* The entries of c that c2 no longer holds.
Evicted(c, c2) == {c[i] : i \in {j \in DOMAIN c : ~HasKey(c2, c[j].key)}}

\* C14: the cache keeps its entries in the order of their last use, where
\* the insertion and every hit served by classify is a use; inserting a new
\* key into a cache that holds maxsize unexpired entries evicts exactly one
\* entry, the one used longest ago, and keeps all others.
C14_EvictsLeastRecentlyUsed ==
  /\ [](\A i \in DOMAIN result_cache : result_cache[i].used = i)
  /\ [][(Respond /\ resp'.status = 200
          /\ Len(Live(result_cache, now)) = maxsize
          /\ ~HasKey(result_cache, get_cache_key(req.text)))
         => LET live == Live(result_cache, now)
                gone == Evicted(live, result_cache')
            IN /\ Cardinality(gone) = 1
               /\ \A v \in gone : \A i \in DOMAIN live : v.used <= live[i].used
               /\ Keys(result_cache')
                    = (Keys(live) \ {v.key : v \in gone}) \cup {get_cache_key(req.text)}]_vars

\* a and b were inserted in this order, a was hit, c was inserted: a and c
\* are present, b is not.
C14_Witness ==
  /\ maxsize = 2 /\ now < CACHE_TTL
  /\ Len(email_history) = 3
  /\ <<email_history[1].email_content.body, email_history[2].email_content.body,
       email_history[3].email_content.body>> = <<"a", "b", "c">>
  /\ Keys(result_cache) = {Hash(Text("a", 5)), Hash(Text("c", 5))}
  /\ resp.status = 200 /\ resp.via = "miss" /\ resp.text = Text("c", 5)

\* C15: an entry whose age has reached the TTL is a miss for classify even
\* while it is still physically present: the membership test sends the
\* request down the miss path, which makes two new backend invocations and
\* replaces the entry with one that expires a full TTL after the write. A
\* hit is served only from an unexpired entry and leaves the entry's value
\* and expiry time as they were.
C15_ExpiredEntryIsMiss ==
  /\ [](\A i \in DOMAIN result_cache : result_cache[i].expires <= now + CACHE_TTL)
  /\ [][(CacheLookup /\ HasKey(result_cache, get_cache_key(req.text))
          /\ now >= EntryOf(result_cache, get_cache_key(req.text)).expires)
         => (req'.pc = "attempt" /\ req'.phase = "classification"
               /\ result_cache' = result_cache)]_vars
  /\ [][(Respond /\ resp'.status = 200)
         => LET k == get_cache_key(req.text)
            IN /\ resp'.inv = 2
               /\ EntryOf(result_cache', k).expires = now + CACHE_TTL
               /\ EntryOf(result_cache', k).val = resp'.body
               /\ Cardinality({i \in DOMAIN result_cache' : result_cache'[i].key = k}) = 1]_vars
  /\ [][(CacheRead /\ resp'.status = 200)
         => LET k == get_cache_key(req.text)
            IN /\ now < EntryOf(result_cache, k).expires
               /\ resp'.inv = 0
               /\ EntryOf(result_cache', k).expires = EntryOf(result_cache, k).expires
               /\ EntryOf(result_cache', k).val = EntryOf(result_cache, k).val]_vars

\* a was classified, its entry expired, and a was classified again.
C15_Witness ==
  /\ Len(email_history) = 2
  /\ email_history[1].email_content = Text("a", 5)
  /\ email_history[2].email_content = Text("a", 5)
  /\ resp.status = 200 /\ resp.via = "miss" /\ resp.inv = 2 /\ resp.text = Text("a", 5)
  /\ Len(result_cache) = 1 /\ result_cache[1].expires = now + CACHE_TTL
  /\ now >= CACHE_TTL

\* C16: the cache is never the source of an error response: every request
\* that found its key in the cache ends with 200, whatever the clock does
\* between the membership test and the read.
C16_CacheNeverFails == resp.via = "hit" => resp.status = 200

C18_RetryStateIsPerCall ==
  /\ [][DirectCall
         => (req'.pc = "attempt" /\ req'.attempt = 1 /\ req'.callInv = 0
               /\ req'.delays = <<>>)]_vars
  /\ [](req.pc \in CallPcs
         => /\ req.callInv = req.attempt - (IF req.pc = "attempt" THEN 1 ELSE 0)
            /\ Len(req.delays) = req.callInv
            /\ \A k \in DOMAIN req.delays : req.delays[k] = WaitExponential(k))
  /\ []((req.callOut = "raised" /\ req.callExc = "RetryError")
         => (req.callInv = StopAfterAttempt /\ Len(req.delays) = StopAfterAttempt - 1))

\* The call after one that exhausted its attempts fails twice and succeeds
\* on its own third attempt.
C18_Witness ==
  /\ req.prevExc = "RetryError"
  /\ req.callOut = "returned" /\ req.callInv = 3 /\ req.delays = <<2, 2>>

\* str.strip() of the text is empty.
IsBlank(t) == t.len = 0 \/ t.body = "ws"

\* C19: a request is accepted only if its text has 1 to 50000 characters
\* and is not blank: a request with no email_content, an empty text, a text
\* of more than 50000 characters or a text of blanks only is answered 400,
\* is never handled (no backend invocation), and leaves no cache entry and
\* no history item.
C19_OnlyAcceptableTextIsHandled ==
  /\ (resp.status # 0 /\ (IsBlank(resp.text) \/ resp.text.len > 50000))
       => (resp.status = 400 /\ resp.inv = 0)
  /\ req.kind = "classify" => ~IsBlank(req.text) /\ req.text.len <= 50000
  /\ \A i \in DOMAIN result_cache :
       ~IsBlank(result_cache[i].src) /\ result_cache[i].src.len <= 50000
  /\ \A i \in DOMAIN email_history : ~IsBlank(email_history[i].email_content)

\* The category as C20 states it, from the tokens of the classification
\* member (none when the member is no string).
ClaimedCategory(toks) ==
  IF Contains(LowerSeq(toks), IMPRODUTIVO) THEN "Improdutivo"
  ELSE IF Contains(LowerSeq(toks), PRODUTIVO) THEN "Produtivo"
  ELSE "Improdutivo"

\* C20: for every reply that parses as a JSON object the interpretation
\* yields a result whose category follows from the classification member
\* alone: Improdutivo if it contains "improdutivo" in any case, else
\* Produtivo if it contains "produtivo", else Improdutivo.
C20_CategoryFromClassificationField ==
  (req.pc = "extract" /\ req.reply.doc.t = "obj")
    => LET r == extract_classification_data(req.reply)
       IN /\ r.st = "ok"
          /\ r.classification = ClaimedCategory(ClassificationToks(req.reply.doc.cls))

\* The members of a reply object that json.loads delivers as numbers.
IsNumber(f) == f.k \in {"num", "inf", "nan"}

\* min(hi, max(0, x)) of a JSON number, in tenths; a number that is no
\* number is only required to come out in range.
ClaimedClamp(f, hi, v) ==
  CASE f.k = "num" -> v = Max(0, Min(hi, f.v))
    [] f.k = "inf" -> v = hi
    [] OTHER       -> v \in 0..hi

\* C21: for every reply that parses as a JSON object with numeric
\* pontuation s and confidence c, the interpretation succeeds by the
\* structured path with pontuation min(10, max(0, s)) and confidence
\* min(1.0, max(0.0, c)): nothing is rejected or left to the text heuristic.
C21_NumbersAreClamped ==
  (req.pc = "extract" /\ req.reply.doc.t = "obj" /\ ~req.reply.fence
     /\ req.reply.doc.cls.k \in {"missing", "str"}
     /\ IsNumber(req.reply.doc.conf) /\ IsNumber(req.reply.doc.pont))
    => LET r == extract_classification_data(req.reply)
       IN /\ r.st = "ok"
          /\ r = TryParse(req.reply)
          /\ ClaimedClamp(req.reply.doc.pont, 10 * PontuationMax, 10 * r.pontuation)
          /\ ClaimedClamp(req.reply.doc.conf, ConfidenceMax, r.confidence)

SomeMissing(d) == d.cls.k = "missing" \/ d.conf.k = "missing" \/ d.pont.k = "missing"

\* C22: when the reply parses as an object that lacks some of the three
\* members, interpret succeeds, every missing member gets its default
\* (Improdutivo, 0.5, 5) and every present member keeps its normalized,
\* clamped value.
C22_MissingFieldsDefault ==
  (req.pc = "extract" /\ req.reply.doc.t = "obj" /\ SomeMissing(req.reply.doc))
    => LET d == req.reply.doc
           r == extract_classification_data(req.reply)
       IN /\ r.st = "ok"
          /\ d.cls.k = "missing" => r.classification = "Improdutivo"
          /\ d.conf.k = "missing" => r.confidence = DefaultConfidence
          /\ d.pont.k = "missing" => r.pontuation = DefaultPontuation
          /\ d.cls.k = "str" => r.classification = NormalizeClassification(d.cls.toks)
          /\ d.conf.k = "num" => r.confidence = Max(0, Min(ConfidenceMax, d.conf.v))
          /\ d.pont.k = "num" => r.pontuation = Max(0, Min(PontuationMax, Trunc(d.pont.v)))

\* The claimed outcome of the lexical heuristic over the whole reply text.
ClaimedHeuristic(r) ==
  LET text == LowerSeq(RawText(r))
  IN IF Contains(text, PRODUTIVO) /\ ~Contains(text, IMPRODUTIVO)
     THEN Result("Produtivo", 5, 7)
     ELSE Result("Improdutivo", 5, 3)

\* C23: when the reply does not parse as a structured object, interpret
\* returns the outcome of the case-insensitive lexical heuristic over the whole
\* reply: (Produtivo, 7, 0.5) if the positive term appears and the negative
\* term does not, (Improdutivo, 3, 0.5) in every other case.
C23_UnparsedReplyUsesHeuristic ==
  (req.pc = "extract" /\ req.reply.doc.t # "obj")
    => extract_classification_data(req.reply) = ClaimedHeuristic(req.reply)

\* C25: tokenize_basic of the empty string is the list holding one empty
\* string.
C25_EmptyStringGivesOneEmptyToken ==
  (nlp.fn = "tokenize_basic" /\ nlp.text = <<>>) => nlp.tokens = << <<>> >>

\* C24: in the static-fallback mode (use_lemmatization false, or no
\* linguistic model) the result of preprocess_text is lowercase, holds no "@",
\* no "https" and no punctuation character, and has no leading, trailing or
\* consecutive blank, for every input.
C24_NormalizedTextIsClean ==
  (nlp.fn = "preprocess_text" /\ ~(nlp.spacy /\ nlp.lemm))
    => LET out == nlp.processed
       IN /\ \A i \in DOMAIN out : out[i] \notin {"X", "@", "."}
          /\ ~\E i \in 1..(Len(out) - 1) : out[i] = "http" /\ out[i + 1] = "s"
          /\ out # <<>> => out[1] # " " /\ out[Len(out)] # " "
          /\ ~\E i \in 1..(Len(out) - 1) : out[i] = " " /\ out[i + 1] = " "

\* A text with a URL, a capital, an address and a stopword has been cleaned.
C24_Witness ==
  /\ nlp.fn = "preprocess_text"
  /\ ~nlp.lemm
  /\ nlp.text \in {<<"http", "s", " ", "X">>, <<"X", "@", "X", " ">>, <<"a", ".", ".", "X">>}
  /\ nlp.processed = <<"x">>

\* This step puts into the cache an entry that was not there.
CacheInsert ==
  \E i \in DOMAIN result_cache' :
    \A j \in DOMAIN result_cache :
      ~(/\ result_cache[j].key = result_cache'[i].key
        /\ result_cache[j].val = result_cache'[i].val
        /\ result_cache[j].expires = result_cache'[i].expires)

\* C26: a miss runs in a fixed order. The reply call starts only when the
\* classification call has returned and its reply has been interpreted, and
\* its prompt carries the classification and pontuation of that (normalized,
\* clamped) result; the cache is written only after both calls have
\* returned; and a miss without transient failures makes exactly two backend
\* invocations.
C26_MissStepsInOrder ==
  [][/\ (req'.phase = "reply" /\ req.phase # "reply")
          => LET r == extract_classification_data(req.reply)
             IN /\ req.pc = "extract" /\ req.phase = "classification"
                /\ req.callOut = "returned" /\ req.inv >= 1
                /\ r.st = "ok" /\ InRange(r)
                /\ req'.callInv = 0 /\ req'.inv = req.inv
                /\ req'.prompt.template = "RESPONSE_PROMPT_TEMPLATE"
                /\ req'.prompt.email_content = req.text
                /\ req'.prompt.classification = r.classification
                /\ req'.prompt.pontuation = r.pontuation
     /\ CacheInsert
          => /\ req.pc = "respond" /\ req.phase = "reply"
             /\ req.callOut = "returned" /\ req.result.st = "ok"
             /\ req.inv >= 2
     /\ (req.pc = "respond" /\ resp'.status = 200)
          => /\ resp'.inv = 2 + req.transients
             /\ req.transients = 0 => resp'.inv = 2
    ]_vars

\* A miss has succeeded with two invocations and its response is cached.
C26_Witness ==
  /\ resp.status = 200 /\ resp.via = "miss" /\ resp.inv = 2
  /\ HasKey(result_cache, get_cache_key(resp.text))
  /\ EntryOf(result_cache, get_cache_key(resp.text)).val = resp.body
  /\ resp.body.pontuation = PontuationMax

\* C27: a cache hit for the raw text T returns a result that was computed
\* from exactly the text T: no request receives the classification and reply
\* of a different email.
C27_HitIsForSameText ==
  (resp.status = 200 /\ resp.via = "hit") => resp.src = resp.text

\* C28: a classify request that succeeds on a miss appends exactly one item
\* to email_history; the item has the classification, pontuation,
\* suggested_reply and confidence of the returned and cached response and
\* the first 500 characters of the raw text. A cache hit, a configuration
\* error and a processing failure leave email_history unchanged.
C28_HistoryGrowsOnSuccessfulMiss ==
  [][IF req.pc = "respond" /\ resp'.status = 200
     THEN LET n == Len(email_history)
              item == email_history'[n + 1]
              e == EntryOf(result_cache', get_cache_key(req.text))
          IN /\ Len(email_history') = n + 1
             /\ SubSeq(email_history', 1, n) = email_history
             /\ resp'.via = "miss" /\ resp'.text = req.text
             /\ HasKey(result_cache', get_cache_key(req.text))
             /\ \A b \in {resp'.body, e.val} :
                  /\ item.classification = b.classification
                  /\ item.pontuation = b.pontuation
                  /\ item.suggested_reply = b.suggested_reply
                  /\ item.confidence = b.confidence
             /\ item.email_content = Text(req.text.body, Min(500, req.text.len))
     ELSE \/ email_history' = email_history
          \/ /\ req.pc = "idle" /\ req'.pc = "idle" /\ req'.cleared.ran
             /\ resp' = resp /\ email_history' = <<>>
    ]_vars

\* A 600-character text has been classified on a miss and its history item
\* holds 500 characters; a hit, a failure and a configuration error have been
\* answered with the history as it was.
C28_Witness ==
  /\ resp.status = 200 /\ resp.via = "miss" /\ resp.text = Text("b", 600)
  /\ email_history # <<>>
  /\ email_history[Len(email_history)].email_content = Text("b", 500)
  /\ email_history[Len(email_history)].suggested_reply = resp.body.suggested_reply

\* C29: clear_history empties email_history and result_cache: after it has
\* run, listing the history returns no items, and the next classify of a text
\* that was cached before is a miss that invokes the backend again.
C29_ClearEmptiesHistoryAndCache ==
  [][/\ (req'.pc = "idle" /\ req'.cleared.ran)
          => /\ email_history' = <<>> /\ result_cache' = <<>>
             /\ \A limit \in 0..(MaxHistory + 1) : get_history(limit)' = <<>>
     /\ (req.kind = "classify" /\ req.cleared.ran /\ req.text \in req.cleared.texts)
          => /\ req'.pc # "getitem"
             /\ req'.pc = "idle" => resp'.via # "hit" /\ resp'.inv >= 1
    ]_vars

\* A text that was cached before clear_history ran is classified again and
\* the backend has been invoked for it.
C29_Witness ==
  /\ req.kind = "classify" /\ req.cleared.ran /\ req.text \in req.cleared.texts
  /\ req.cache0 = <<>>
  /\ req.pc = "extract" /\ req.inv = 1

\* The stored entries as the readers see them: key, the four fields, expiry.
Stored(c) == {<<c[i].key, c[i].val, c[i].expires>> : i \in DOMAIN c}

\* C30: a stored entry keeps the four field values it was inserted with
\* until it expires, is evicted, is cleared or is replaced by a new insert
\* for its key; a cache hit returns the stored entry and changes no entry.
C30_ReadersNeverMutateEntries ==
  [][/\ \A j \in DOMAIN result_cache' : result_cache'[j].val = result_cache'[j].first
     /\ \A i \in DOMAIN result_cache, j \in DOMAIN result_cache' :
          (/\ result_cache[i].key = result_cache'[j].key
           /\ ~(req.pc = "respond" /\ result_cache[i].key = get_cache_key(req.text)))
            => /\ result_cache'[j].val = result_cache[i].val
               /\ result_cache'[j].expires = result_cache[i].expires
     /\ req.pc = "getitem"
          => /\ Stored(result_cache') = Stored(result_cache)
             /\ resp'.status = 200
                  => resp'.body = EntryOf(result_cache, get_cache_key(req.text)).val
    ]_vars

\* An entry has been read by a hit some time after its insertion, next to
\* another entry, and still holds what was inserted.
C30_Witness ==
  /\ resp.status = 200 /\ resp.via = "hit"
  /\ Len(result_cache) = 2
  /\ HasKey(result_cache, get_cache_key(resp.text))
  /\ LET e == EntryOf(result_cache, get_cache_key(resp.text))
     IN /\ e.val = resp.body /\ e.val = e.first
        /\ e.val.suggested_reply # <<>>
        /\ e.expires < now + CACHE_TTL

====
